---- MODULE Spec2Model ----
(***************************************************************************)
(* Legal document simplifier: the Flask routes of backend/api.py driving   *)
(* the single process-wide LegalDocumentSimplifier of                      *)
(* backend/legal_simplifier.py.                                            *)
(*                                                                         *)
(* Strings are modelled as sequences of tokens (a token is a word, a       *)
(* separator such as "." or "/", a code fence, or the text of one JSON     *)
(* document).  Substring tests, split, strip, join and basename are        *)
(* computed on those sequences the way the Python code computes them on    *)
(* characters.  An optional string is a record [isNone, s]; None is the    *)
(* record with isNone = TRUE.                                              *)
(*                                                                         *)
(* Spec serves requests one at a time.  SpecInterp runs the concerns       *)
(* interpreter alone on model outputs.  SpecConc serves chat and clear     *)
(* requests in two threads that share the transcript.                      *)
(***************************************************************************)
EXTENDS Integers, Sequences, FiniteSets, TLC

\* ------------------------------------------------------------------ bounds
\* Number of requests served in one run (also the value range of the clock).
MaxClock == 3

\* ------------------------------------------------------- program constants
SimplifyBudget == 3000
ConcernsBudget == 4000
CompareBudget  == 3000
ChatBudget     == 2000

UPLOAD_FOLDER == <<"frontend", "/", "static", "/", "uploads">>
OUTPUT_FOLDER == <<"outputs">>
ALLOWED_EXTENSIONS == {<<"pdf">>, <<"docx">>, <<"txt">>}

\* ---------------------------------------------------------- string helpers
Min(a, b) == IF a < b THEN a ELSE b

\* s[:n]
Take(s, n) == SubSeq(s, 1, Min(Len(s), n))

\* s[n:] (n counted from 1: the tokens from position n on)
Drop(s, n) == SubSeq(s, n, Len(s))

\* tok in s, for a one-token needle
Contains(s, tok) == \E i \in 1..Len(s) : s[i] = tok

\* s.startswith(p)
StartsWith(s, p) == Len(s) >= Len(p) /\ SubSeq(s, 1, Len(p)) = p

\* s.endswith(p)
EndsWith(s, p) == Len(s) >= Len(p) /\ SubSeq(s, Len(s) - Len(p) + 1, Len(s)) = p

\* position of the first occurrence of the needle p in s, 0 when absent
IndexOf(s, p) ==
    LET hits == {i \in 1..(Len(s) - Len(p) + 1) : SubSeq(s, i, i + Len(p) - 1) = p}
    IN  IF hits = {} THEN 0 ELSE CHOOSE i \in hits : \A j \in hits : i <= j

\* position of the last occurrence of the one-token needle in s, 0 when absent
LastIndexOf(s, tok) ==
    LET hits == {i \in 1..Len(s) : s[i] = tok}
    IN  IF hits = {} THEN 0 ELSE CHOOSE i \in hits : \A j \in hits : i >= j

\* s.split(p)[0]
SplitFirst(s, p) ==
    LET i == IndexOf(s, p) IN IF i = 0 THEN s ELSE SubSeq(s, 1, i - 1)

\* s.split(p)[1], for s that contains p
SplitSecond(s, p) ==
    SplitFirst(Drop(s, IndexOf(s, p) + Len(p)), p)

\* s.split('.')[-1] and s.rsplit('.', 1)[1]: what follows the last "."
AfterLastDot(s) == Drop(s, LastIndexOf(s, ".") + 1)

\* str.lower(), token by token
LowerTok(t) ==
    CASE t = "PDF"  -> "pdf"
      [] t = "TXT"  -> "txt"
      [] t = "DOCX" -> "docx"
      [] OTHER      -> t

Lower(s) == [i \in 1..Len(s) |-> LowerTok(s[i])]

Whitespace == {" ", "\n"}

RECURSIVE LStrip(_)
LStrip(s) == IF s # <<>> /\ s[1] \in Whitespace THEN LStrip(Tail(s)) ELSE s

RECURSIVE RStrip(_)
RStrip(s) ==
    IF s # <<>> /\ s[Len(s)] \in Whitespace THEN RStrip(SubSeq(s, 1, Len(s) - 1)) ELSE s

\* str.strip()
Strip(s) == LStrip(RStrip(s))

\* os.path.join(a, b)
PathJoin(a, b) == IF StartsWith(b, <<"/">>) THEN b ELSE a \o <<"/">> \o b

\* os.path.basename(p)
Basename(p) == Drop(p, LastIndexOf(p, "/") + 1)

\* -------------------------------------------------------------- file system
\* Relative paths are resolved against one base directory, the directory the
\* process is started in (run.py sits there).  A path is normalised by
\* resolving its ".." segments; the set files holds normalised paths.
RECURSIVE Segments(_)
Segments(p) ==
    LET i == IndexOf(p, <<"/">>)
    IN  IF i = 0 THEN <<p>> ELSE <<SubSeq(p, 1, i - 1)>> \o Segments(Drop(p, i + 1))

RECURSIVE Resolve(_, _)
Resolve(done, segs) ==
    IF segs = <<>> THEN done
    ELSE IF Head(segs) = <<"..">> /\ done # <<>>
         THEN Resolve(SubSeq(done, 1, Len(done) - 1), Tail(segs))
         ELSE Resolve(Append(done, Head(segs)), Tail(segs))

RECURSIVE JoinSegs(_)
JoinSegs(segs) ==
    IF segs = <<>> THEN <<>>
    ELSE IF Len(segs) = 1 THEN Head(segs)
    ELSE Head(segs) \o <<"/">> \o JoinSegs(Tail(segs))

NormPath(p) == JoinSegs(Resolve(<<>>, Segments(p)))

\* directory part of a normalised path (<<>> is the base directory)
Dirname(p) ==
    LET i == LastIndexOf(p, "/") IN IF i = 0 THEN <<>> ELSE SubSeq(p, 1, i - 1)

\* directories that exist: the base directory and the two folders api.py makes
Dirs == {<<>>, UPLOAD_FOLDER, OUTPUT_FOLDER}

\* files of the application that are on disk before any request
InitialFiles ==
    [p \in {<<"run", ".", "py">>} |-> [kind |-> "source", data |-> [ok |-> TRUE, text |-> <<"import", "os">>]]]

\* os.path.exists(p), for a file
Exists(fs, p) == NormPath(p) \in DOMAIN fs

\* ------------------------------------------------------------------ values
None == [isNone |-> TRUE, s |-> <<>>]
Str(s) == [isNone |-> FALSE, s |-> s]
\* Python truthiness of an optional string
Truthy(v) == ~v.isNone /\ v.s # <<>>

\* ------------------------------------------------------------ upload inputs
NonAscii == {"<nonascii>"}

\* file names a client may send (the empty name is "no file selected")
UploadNames ==
    { <<>>,
      <<"nda", ".", "PDF">>,
      <<"<nonascii>", ".", "txt">>,
      <<"tool", ".", "exe">> }

\* logical names a client may send with an upload (the empty name is "none")
UploadDocNames == { <<>>, <<"A">> }

\* what the bytes of an uploaded file are: extractable text, or bytes on which
\* the reader raises (ok = FALSE, text = the exception's message)
Bodies ==
    { [ok |-> TRUE,  text |-> <<"Tenant", "shall", "pay">>],
      [ok |-> TRUE,  text |-> <<"Error", "and", "omission", "clause">>],
      [ok |-> FALSE, text |-> <<"corrupt">>] }

\* the body of a request that carries no file
NoBody == [ok |-> FALSE, text |-> <<>>]

\* werkzeug.utils.secure_filename: non-ASCII characters are dropped, path
\* separators become "_", leading and trailing "." and "_" are stripped
RECURSIVE DropNonAscii(_)
DropNonAscii(s) ==
    IF s = <<>> THEN <<>>
    ELSE IF Head(s) \in NonAscii THEN DropNonAscii(Tail(s))
    ELSE <<IF Head(s) = "/" THEN "_" ELSE Head(s)>> \o DropNonAscii(Tail(s))

RECURSIVE StripDots(_)
StripDots(s) ==
    IF s # <<>> /\ s[1] \in {".", "_"} THEN StripDots(Tail(s))
    ELSE IF s # <<>> /\ s[Len(s)] \in {".", "_"} THEN StripDots(SubSeq(s, 1, Len(s) - 1))
    ELSE s

secure_filename(name) == StripDots(DropNonAscii(name))

allowed_file(filename) ==
    Contains(filename, ".") /\ Lower(AfterLastDot(filename)) \in ALLOWED_EXTENSIONS

\* ---------------------------------------------------------- document loader
read_pdf(body) ==
    IF body.ok THEN body.text ELSE <<"Error", "reading", "PDF:">> \o body.text

read_docx(body) ==
    IF body.ok THEN body.text ELSE <<"Error", "reading", "DOCX:">> \o body.text

read_txt(body) ==
    IF body.ok THEN body.text ELSE <<"Error", "reading", "TXT:">> \o body.text

UnsupportedMessage == <<"Unsupported", "file", "format.">>

\* load_document(file_path, doc_name) on the document map docs, at time
\* now, where body is what is stored at file_path: the returned text and
\* the document map afterwards
load_document(docs, file_path, doc_name, body, now) ==
    LET extension == AfterLastDot(Lower(file_path))
        supported == extension \in {<<"pdf">>, <<"docx">>, <<"txt">>}
        text == CASE extension = <<"pdf">>  -> read_pdf(body)
                  [] extension = <<"docx">> -> read_docx(body)
                  [] extension = <<"txt">>  -> read_txt(body)
                  [] OTHER                  -> UnsupportedMessage
        name == IF doc_name = <<>> THEN Basename(file_path) ELSE doc_name
        entry == [text |-> text, path |-> file_path, loaded_at |-> now]
    IN  IF ~supported
        THEN [ret |-> UnsupportedMessage, docs |-> docs]
        ELSE [ret |-> text,
              docs |-> [n \in DOMAIN docs \cup {name} |->
                            IF n = name THEN entry ELSE docs[n]]]

\* ------------------------------------------------------------ model gateway
\* What one request to the hosted model can end in: a reply or a
\* transport/API exception.
GatewayOutcomes == {"ok", "fail"}

UpstreamMessage == <<"upstream", "failure">>

\* client.chat.completions.create(...) for a free-text task: the content of
\* the reply to prompt (the last message of the request)
Completion(prompt) ==
    <<"Reply", "to:">> \o prompt

\* --------------------------------------------------------- free-text tasks
SimplifyPrompt(legal_text) == <<"Simplify:">> \o Take(legal_text, SimplifyBudget)

\* simplify_legal_text(legal_text): the returned string
simplify_legal_text(legal_text, outcome) ==
    IF outcome = "fail"
    THEN <<"Error", "calling", "API:">> \o UpstreamMessage
    ELSE Completion(SimplifyPrompt(legal_text))

ComparePrompt(docs, doc1_name, doc2_name) ==
    <<"Compare:">> \o doc1_name \o Take(docs[doc1_name].text, CompareBudget)
                   \o <<"with:">> \o doc2_name \o Take(docs[doc2_name].text, CompareBudget)

NotFoundMessage == <<"One", "or", "both", "documents", "not", "found.">>

\* compare_documents(doc1_name, doc2_name): the returned string and the
\* number of gateway requests made
compare_documents(docs, doc1_name, doc2_name, outcome) ==
    IF doc1_name \notin DOMAIN docs \/ doc2_name \notin DOMAIN docs
    THEN [ret |-> NotFoundMessage, calls |-> 0]
    ELSE IF outcome = "fail"
    THEN [ret |-> <<"Error", "comparing", "documents:">> \o UpstreamMessage, calls |-> 1]
    ELSE [ret |-> Completion(ComparePrompt(docs, doc1_name, doc2_name)), calls |-> 1]

\* ---------------------------------------------------------------------chat
Turn(role, content) == [role |-> role, content |-> content]

ContextPrompt(user_message, document_context) ==
    IF Truthy(document_context)
    THEN <<"Document", "Context:">> \o Take(document_context.s, ChatBudget)
         \o <<"User", "Question:">> \o user_message
    ELSE user_message

\* the transcript once the user turn is appended (legal_simplifier.py:285)
ChatAppendUser(history, user_message, document_context) ==
    Append(history, Turn("user", ContextPrompt(user_message, document_context)))

\* ChatComplete with the append of the assistant turn left out
ChatComplete_drops_reply(history, outcome) ==
    IF outcome = "fail"
    THEN [ret |-> <<"Error:">> \o UpstreamMessage, history |-> history]
    ELSE [ret |-> Completion(history[Len(history)].content), history |-> history]

\* the content of the reply to the messages of a chat request, which are
\* the system prompt and the transcript as it is when the request is built
\* (legal_simplifier.py:288-298)
ChatReply(messages) ==
    Completion(IF messages = <<>> THEN <<>> ELSE messages[Len(messages)].content)

\* ChatAppendAssistant writing over the last turn instead of appending
ChatAppendAssistant_overwrites(history, assistant_message) ==
    IF history = <<>>
    THEN <<Turn("assistant", assistant_message)>>
    ELSE [history EXCEPT ![Len(history)] = Turn("assistant", assistant_message)]

\* the transcript once the assistant turn is appended (legal_simplifier.py:301)
ChatAppendAssistant(history, assistant_message) ==
    Append(history, Turn("assistant", assistant_message))

\* the rest of chat, run on the transcript that holds the user turn: the
\* returned string and the transcript afterwards
ChatComplete(history, outcome) ==
    IF outcome = "fail"
    THEN [ret |-> <<"Error:">> \o UpstreamMessage, history |-> history]
    ELSE LET assistant_message == ChatReply(history)
         IN  [ret |-> assistant_message,
              history |-> ChatAppendAssistant(history, assistant_message)]

\* chat(user_message, document_context)
chat(history, user_message, document_context, outcome) ==
    ChatComplete(ChatAppendUser(history, user_message, document_context), outcome)

\* ------------------------------------------------------------ concerns task
\* JSON values.  A value is [t, items, f]: t is its type, items the elements
\* of an array, f the members of an object.  An element of an array is
\* [t, f].
ConcernFields == {"clause", "concern", "severity", "recommendation"}

ObjElem(f) == [t |-> "obj", f |-> f]
StrElem == [t |-> "str", f |-> [v |-> "text"]]

GoodEntry ==
    ObjElem([clause |-> "late-fee", concern |-> "uncapped",
             severity |-> "HIGH", recommendation |-> "negotiate"])

OtherEntry ==
    ObjElem([clause |-> "renewal", concern |-> "automatic",
             severity |-> "urgent", recommendation |-> "calendar"])

EntryWithoutSeverity ==
    ObjElem([clause |-> "late-fee", concern |-> "uncapped", recommendation |-> "negotiate"])

JsonArray(items) == [t |-> "arr", items |-> items, f |-> [v |-> "none"]]
JsonObject(f) == [t |-> "obj", items |-> <<>>, f |-> f]
JsonNumber == [t |-> "num", items |-> <<>>, f |-> [v |-> "42"]]

\* a token that is the text of one JSON document, and the value it denotes
JsonDocs ==
    {"JSON:entries", "JSON:empty-array", "JSON:entry-without-severity",
     "JSON:array-of-strings", "JSON:object", "JSON:number"}

JsonValue(tok) ==
    CASE tok = "JSON:entries"                -> JsonArray(<<GoodEntry, OtherEntry>>)
      [] tok = "JSON:empty-array"            -> JsonArray(<<>>)
      [] tok = "JSON:entry-without-severity" -> JsonArray(<<GoodEntry, EntryWithoutSeverity>>)
      [] tok = "JSON:array-of-strings"       -> JsonArray(<<StrElem>>)
      [] tok = "JSON:object"                 -> JsonObject([clause |-> "late-fee"])
      [] tok = "JSON:number"                 -> JsonNumber

\* the text of an array of one string is written out: the token "[q" is the
\* bracket with the opening quote, "q]" the closing quote with the bracket,
\* and the tokens between them are the characters of the string
OpenQuoted == "[q"
CloseQuoted == "q]"

StringArrayText(chars) == <<OpenQuoted>> \o chars \o <<CloseQuoted>>

IsStringArrayText(body) ==
    /\ Len(body) >= 2
    /\ body[1] = OpenQuoted
    /\ body[Len(body)] = CloseQuoted
    /\ \A i \in 2..(Len(body) - 1) : body[i] \notin {OpenQuoted, CloseQuoted, "\n"}

\* json.loads(s): a document with optional surrounding whitespace; anything
\* else raises
json_loads(s) ==
    LET body == Strip(s)
    IN  IF Len(body) = 1 /\ body[1] \in JsonDocs
        THEN [ok |-> TRUE, value |-> JsonValue(body[1])]
        ELSE IF IsStringArrayText(body)
        THEN [ok |-> TRUE, value |-> JsonArray(<<StrElem>>)]
        ELSE [ok |-> FALSE, value |-> JsonArray(<<>>)]

\* the token "<fence>" is a run of three backquotes
Fence == <<"<fence>">>
JsonFence == <<"<fence>", "json">>

\* the text handed to json.loads (legal_simplifier.py:126-130)
ExtractJson(content) ==
    LET result == Strip(content)
    IN  IF IndexOf(result, JsonFence) # 0
        THEN Strip(SplitFirst(SplitSecond(result, JsonFence), Fence))
        ELSE IF IndexOf(result, Fence) # 0
        THEN Strip(SplitFirst(SplitSecond(result, Fence), Fence))
        ELSE result

\* contents the model may answer a concerns request with
ConcernReplies ==
    { <<"JSON:entries">>,
      <<"<fence>", "json", "\n", "JSON:entries", "\n", "<fence>">>,
      <<"<fence>", "\n", "JSON:entries", "\n", "<fence>">>,
      <<"JSON:empty-array">>,
      <<"JSON:entry-without-severity">>,
      <<"JSON:array-of-strings">>,
      <<"JSON:object">>,
      <<"JSON:number">>,
      <<"I", "found", "no", "JSON">> }

\* highlight_concerning_clauses(legal_text): the returned value, when the
\* gateway fails (outcome "fail") or answers with content
highlight_concerning_clauses(legal_text, outcome, content) ==
    LET parsed == json_loads(ExtractJson(content))
    IN  IF outcome = "fail" THEN JsonArray(<<>>)
        ELSE IF parsed.ok THEN parsed.value
        ELSE JsonArray(<<>>)

\* what for c in concerns iterates over: the elements of a list, the keys
\* of a dict; a number is not iterable
Iterable(v) == v.t \in {"arr", "obj"}

Elements(v) ==
    IF v.t = "arr" THEN v.items
    ELSE [i \in 1..Cardinality(DOMAIN v.f) |-> StrElem]

\* subscripting c with each of the four field names succeeds
Subscriptable(c) == c.t = "obj" /\ ConcernFields \subseteq DOMAIN c.f

FormatConcern(c) ==
    <<"[", c.f.severity, "]", c.f.clause, "\n", "Concern:", c.f.concern, "\n",
      "Recommendation:", c.f.recommendation, "\n">>

RECURSIVE JoinLines(_)
JoinLines(lines) ==
    IF lines = <<>> THEN <<>>
    ELSE IF Len(lines) = 1 THEN Head(lines)
    ELSE Head(lines) \o <<"\n">> \o JoinLines(Tail(lines))

\* the text get_concerns stores (api.py:118-121); it raises when the value
\* is not iterable or an element cannot be subscripted
ConcernsRaises(concerns) ==
    ~Iterable(concerns)
    \/ \E i \in 1..Len(Elements(concerns)) : ~Subscriptable(Elements(concerns)[i])

ConcernsText(concerns) ==
    <<"CONCERNING", "CLAUSES", "ANALYSIS", "\n", "\n">>
    \o JoinLines([i \in 1..Len(concerns.items) |-> FormatConcern(concerns.items[i])])

\* ---------------------------------------------------------- export renderer
\* content.encode('latin-1', 'replace').decode('latin-1')
Latin1(content) ==
    [i \in 1..Len(content) |-> IF content[i] \in NonAscii THEN "?" ELSE content[i]]

\* file names a client may ask an export to use (None: no name given)
ExportNames ==
    { None,
      Str(<<"report">>),
      Str(<<"..", "/", "leak">>),
      Str(<<"outputs", "/", "final", ".", "pdf">>),
      Str(<<"drafts", "/", "v1", ".", "pdf">>) }

\* a file on disk: what wrote it and what it holds
File(kind, data) == [kind |-> kind, data |-> data]

\* save_to_pdf(content, filename) at time now on the file system fs, where
\* renders says whether laying out the pages succeeds: the returned string
\* and the file system afterwards
save_to_pdf(fs, content, filename, now, renders) ==
    LET named == IF Truthy(filename) THEN filename.s
                 ELSE <<"simplified_legal_doc_", ToString(now), ".", "pdf">>
        path == IF StartsWith(named, <<"outputs", "/">>) THEN named
                ELSE PathJoin(<<"outputs">>, named)
        target == NormPath(path)
    IN  IF ~renders \/ Dirname(target) \notin Dirs
        THEN [ret |-> <<"Error", "saving", "PDF:">>, fs |-> fs]
        ELSE [ret |-> path,
              fs |-> [q \in DOMAIN fs \cup {target} |->
                         IF q = target THEN File("artifact", [ok |-> TRUE, text |-> Latin1(content)]) ELSE fs[q]]]

\* ----------------------------------------------------------- route handlers
\* Each handler is an operator from the state it reads and its inputs to the
\* response it returns and the state it leaves.  A response is
\* [status, success, body]; jsonify({'error': m}) has success = FALSE.
Success(body) == [status |-> 200, success |-> TRUE, body |-> body]
Failure(status, message) == [status |-> status, success |-> FALSE, body |-> [error |-> message]]

\* names a task request may carry (the empty name: absent, null or "")
TaskDocNames == { <<>>, <<"A">>, <<"ghost">> }

ChatMessages == { <<"q1">>, <<"q2">> }

DownloadNames ==
    { <<"report", ".", "pdf">>, <<"leak", ".", "pdf">>,
      <<"run", ".", "py">>, <<"missing", ".", "pdf">> }

\* POST /api/upload
upload_document(docs, fs, has_file, filename, doc_name, body, now) ==
    IF ~has_file
    THEN [resp |-> Failure(400, <<"No", "file", "provided">>), docs |-> docs, fs |-> fs]
    ELSE IF filename = <<>>
    THEN [resp |-> Failure(400, <<"No", "file", "selected">>), docs |-> docs, fs |-> fs]
    ELSE IF ~allowed_file(filename)
    THEN [resp |-> Failure(400, <<"Invalid", "file", "type.">>), docs |-> docs, fs |-> fs]
    ELSE
      LET saved == secure_filename(filename)
          filepath == PathJoin(UPLOAD_FOLDER, saved)
          target == NormPath(filepath)
          disk == [q \in DOMAIN fs \cup {target} |->
                      IF q = target THEN File("upload", body) ELSE fs[q]]
          name == IF doc_name # <<>> THEN doc_name ELSE saved
          loaded == load_document(docs, filepath, name, disk[target].data, now)
      IN  IF Contains(loaded.ret, "Error")
          THEN [resp |-> Failure(500, loaded.ret), docs |-> loaded.docs, fs |-> disk]
          ELSE [resp |-> Success([doc_name |-> name, length |-> Len(loaded.ret)]),
                docs |-> loaded.docs, fs |-> disk]

\* GET /api/documents
list_documents(docs) ==
    Success([documents |->
        {[name |-> n, loaded_at |-> docs[n].loaded_at, length |-> Len(docs[n].text)] :
            n \in DOMAIN docs}])

\* analyze_document with the assignment to current_analysis left out
analyze_document_keeps_slot(docs, analysis, doc_name, outcome) ==
    IF doc_name = <<>> \/ doc_name \notin DOMAIN docs
    THEN [resp |-> Failure(404, <<"Document", "not", "found">>),
          analysis |-> analysis, calls |-> 0]
    ELSE [resp |-> Success([analysis |-> simplify_legal_text(docs[doc_name].text, outcome)]),
          analysis |-> analysis, calls |-> 1]

\* POST /api/analyze
analyze_document(docs, analysis, doc_name, outcome) ==
    IF doc_name = <<>> \/ doc_name \notin DOMAIN docs
    THEN [resp |-> Failure(404, <<"Document", "not", "found">>),
          analysis |-> analysis, calls |-> 0]
    ELSE LET result == simplify_legal_text(docs[doc_name].text, outcome)
         IN  [resp |-> Success([analysis |-> result]),
              analysis |-> Str(result), calls |-> 1]

\* POST /api/concerns
get_concerns(docs, analysis, doc_name, outcome, content) ==
    IF doc_name = <<>> \/ doc_name \notin DOMAIN docs
    THEN [resp |-> Failure(404, <<"Document", "not", "found">>),
          analysis |-> analysis, calls |-> 0]
    ELSE LET concerns == highlight_concerning_clauses(docs[doc_name].text, outcome, content)
         IN  IF ConcernsRaises(concerns)
             THEN [resp |-> Failure(500, <<"TypeError", "or", "KeyError">>),
                   analysis |-> analysis, calls |-> 1]
             ELSE [resp |-> Success([concerns |-> concerns]),
                   analysis |-> Str(ConcernsText(concerns)), calls |-> 1]

\* POST /api/compare
api_compare_documents(docs, analysis, doc1, doc2, outcome) ==
    IF doc1 = <<>> \/ doc2 = <<>>
    THEN [resp |-> Failure(400, <<"Two", "documents", "required">>),
          analysis |-> analysis, calls |-> 0]
    ELSE LET comparison == compare_documents(docs, doc1, doc2, outcome)
         IN  [resp |-> Success([comparison |-> comparison.ret]),
              analysis |-> Str(comparison.ret), calls |-> comparison.calls]

\* api_chat over a chat that sends its request again when it failed
api_chat_retries(docs, history, message, doc_name, outcome) ==
    LET document_context ==
            IF doc_name # <<>> /\ doc_name \in DOMAIN docs
            THEN Str(docs[doc_name].text) ELSE None
        answer == chat(history, message, document_context, outcome)
    IN  [resp |-> Success([response |-> answer.ret]),
         history |-> answer.history, calls |-> IF outcome = "fail" THEN 2 ELSE 1]

\* POST /api/chat
api_chat(docs, history, message, doc_name, outcome) ==
    LET document_context ==
            IF doc_name # <<>> /\ doc_name \in DOMAIN docs
            THEN Str(docs[doc_name].text) ELSE None
        answer == chat(history, message, document_context, outcome)
    IN  [resp |-> Success([response |-> answer.ret]),
         history |-> answer.history, calls |-> 1]

\* save_pdf without the test of current_analysis
save_pdf_unguarded(fs, analysis, requested, now, renders) ==
    LET filename == IF Truthy(requested) /\ ~EndsWith(requested.s, <<".", "pdf">>)
                    THEN Str(requested.s \o <<".", "pdf">>) ELSE requested
        saved == save_to_pdf(fs, analysis.s, filename, now, renders)
    IN  IF StartsWith(saved.ret, <<"Error">>)
        THEN [resp |-> Failure(500, saved.ret), fs |-> saved.fs]
        ELSE [resp |-> Success([filename |-> Basename(saved.ret)]), fs |-> saved.fs]

\* POST /api/save-pdf
save_pdf(fs, analysis, requested, now, renders) ==
    IF ~Truthy(analysis)
    THEN [resp |-> Failure(400, <<"No", "analysis", "to", "save">>), fs |-> fs]
    ELSE LET filename == IF Truthy(requested) /\ ~EndsWith(requested.s, <<".", "pdf">>)
                         THEN Str(requested.s \o <<".", "pdf">>) ELSE requested
             saved == save_to_pdf(fs, analysis.s, filename, now, renders)
         IN  IF StartsWith(saved.ret, <<"Error">>)
             THEN [resp |-> Failure(500, saved.ret), fs |-> saved.fs]
             ELSE [resp |-> Success([filename |-> Basename(saved.ret)]),
                   fs |-> saved.fs]

\* GET /api/download/<filename>
download_pdf(fs, filename) ==
    LET in_outputs == PathJoin(OUTPUT_FOLDER, filename)
        filepath == IF Exists(fs, in_outputs) THEN in_outputs ELSE filename
    IN  IF Exists(fs, filepath)
        THEN Success([served |-> NormPath(filepath), file |-> fs[NormPath(filepath)]])
        ELSE Failure(500, <<"No", "such", "file">>)

\* clear_conversation that resets the current analysis as well
clear_conversation_resets_all(history, analysis, docs) ==
    [resp |-> Success([message |-> <<"Conversation", "cleared">>]),
     history |-> <<>>, analysis |-> None, docs |-> docs]

\* POST /api/clear
clear_conversation(history, analysis, docs) ==
    [resp |-> Success([message |-> <<"Conversation", "cleared">>]),
     history |-> <<>>, analysis |-> analysis, docs |-> docs]

\* -------------------------------------------------------------------- state
VARIABLES
    conversation_history,   \* simplifier.conversation_history
    loaded_documents,       \* simplifier.loaded_documents
    current_analysis,       \* simplifier.current_analysis
    files,                  \* the files on disk
    clock,                  \* datetime.now(); one tick per request served
    request,                \* the request served last: its route, its document names
    response,               \* the response it was answered with
    gateway_calls,          \* requests sent to the model gateway so far
    gateway_failures,       \* those of them that raised
    task_invocations,       \* analyze, concerns, compare and chat requests so far
    chats_ok,               \* chats whose gateway call succeeded, since the last clear
    chats_failed,           \* chats whose gateway call failed, since the last clear
    interp,                 \* one run of the concerns interpreter on a model output
    threads                 \* the request threads of the threaded server

vars == <<conversation_history, loaded_documents, current_analysis, files, clock,
          request, response, gateway_calls, gateway_failures, task_invocations,
          chats_ok, chats_failed, interp, threads>>

\* no model output is being interpreted
NoInterp ==
    [pc |-> "idle", array_text |-> <<>>, lead |-> <<>>, pad |-> <<>>, trail |-> <<>>,
     bare |-> JsonArray(<<>>), labeled |-> JsonArray(<<>>), unlabeled |-> JsonArray(<<>>)]

\* requests are served one at a time: no thread is inside a handler
NoThreads == [t \in {} |-> None]

\* the simplifier after construction, the disk and the counters
Constructed ==
    /\ conversation_history = <<>>
    /\ loaded_documents = [n \in {} |-> None]
    /\ current_analysis = None
    /\ files = InitialFiles
    /\ clock = 0
    /\ request = [route |-> "none", names |-> <<>>]
    /\ response = Success([message |-> <<>>])
    /\ gateway_calls = 0
    /\ gateway_failures = 0
    /\ task_invocations = 0
    /\ chats_ok = 0
    /\ chats_failed = 0

Init ==
    /\ Constructed
    /\ interp = NoInterp
    /\ threads = NoThreads

\* the gateway request of an invocation raised
Failed(calls, outcome) == IF calls > 0 /\ outcome = "fail" THEN 1 ELSE 0

\* a request is served: time passes; the route and the document names the
\* request carries are noted
Serve(route, names) ==
    /\ clock < MaxClock
    /\ clock' = clock + 1
    /\ request' = [route |-> route, names |-> names]
    /\ UNCHANGED <<interp, threads>>

Upload ==
    \E has_file \in BOOLEAN, doc_name \in UploadDocNames :
    \E filename \in IF has_file THEN UploadNames ELSE {<<>>} :
    \E body \in IF filename # <<>> THEN Bodies ELSE {NoBody} :
        LET out == upload_document(loaded_documents, files, has_file, filename,
                                   doc_name, body, clock)
        IN  /\ Serve("upload", <<doc_name>>)
            /\ response' = out.resp
            /\ loaded_documents' = out.docs
            /\ files' = out.fs
            /\ UNCHANGED <<conversation_history, current_analysis, gateway_calls,
                           gateway_failures, task_invocations, chats_ok, chats_failed>>

ListDocuments ==
    /\ Serve("documents", <<>>)
    /\ response' = list_documents(loaded_documents)
    /\ UNCHANGED <<conversation_history, loaded_documents, current_analysis, files,
                   gateway_calls, gateway_failures, task_invocations, chats_ok, chats_failed>>

Analyze ==
    \E doc_name \in TaskDocNames, outcome \in GatewayOutcomes :
        LET out == analyze_document(loaded_documents, current_analysis, doc_name, outcome)
        IN  /\ Serve("analyze", <<doc_name>>)
            /\ response' = out.resp
            /\ current_analysis' = out.analysis
            /\ gateway_calls' = gateway_calls + out.calls
            /\ gateway_failures' = gateway_failures + Failed(out.calls, outcome)
            /\ task_invocations' = task_invocations + 1
            /\ UNCHANGED <<conversation_history, loaded_documents, files,
                           chats_ok, chats_failed>>

Concerns ==
    \E doc_name \in TaskDocNames, outcome \in {"ok", "fail"} :
    \E content \in IF outcome = "ok" THEN ConcernReplies ELSE {<<>>} :
        LET out == get_concerns(loaded_documents, current_analysis, doc_name, outcome, content)
        IN  /\ Serve("concerns", <<doc_name>>)
            /\ response' = out.resp
            /\ current_analysis' = out.analysis
            /\ gateway_calls' = gateway_calls + out.calls
            /\ gateway_failures' = gateway_failures + Failed(out.calls, outcome)
            /\ task_invocations' = task_invocations + 1
            /\ UNCHANGED <<conversation_history, loaded_documents, files,
                           chats_ok, chats_failed>>

Compare ==
    \E doc1 \in TaskDocNames, doc2 \in TaskDocNames, outcome \in GatewayOutcomes :
        LET out == api_compare_documents(loaded_documents, current_analysis, doc1, doc2, outcome)
        IN  /\ Serve("compare", <<doc1, doc2>>)
            /\ response' = out.resp
            /\ current_analysis' = out.analysis
            /\ gateway_calls' = gateway_calls + out.calls
            /\ gateway_failures' = gateway_failures + Failed(out.calls, outcome)
            /\ task_invocations' = task_invocations + 1
            /\ UNCHANGED <<conversation_history, loaded_documents, files,
                           chats_ok, chats_failed>>

Chat ==
    \E message \in ChatMessages, doc_name \in TaskDocNames, outcome \in GatewayOutcomes :
        LET out == api_chat(loaded_documents, conversation_history, message, doc_name, outcome)
        IN  /\ Serve("chat", <<doc_name>>)
            /\ response' = out.resp
            /\ conversation_history' = out.history
            /\ gateway_calls' = gateway_calls + out.calls
            /\ gateway_failures' = gateway_failures + Failed(out.calls, outcome)
            /\ task_invocations' = task_invocations + 1
            /\ chats_ok' = IF outcome = "fail" THEN chats_ok ELSE chats_ok + 1
            /\ chats_failed' = IF outcome = "fail" THEN chats_failed + 1 ELSE chats_failed
            /\ UNCHANGED <<loaded_documents, current_analysis, files>>

SavePdf ==
    \E requested \in ExportNames, renders \in BOOLEAN :
        LET out == save_pdf(files, current_analysis, requested, clock, renders)
        IN  /\ Serve("save-pdf", <<>>)
            /\ response' = out.resp
            /\ files' = out.fs
            /\ UNCHANGED <<conversation_history, loaded_documents, current_analysis,
                           gateway_calls, gateway_failures, task_invocations, chats_ok, chats_failed>>

Download ==
    \E filename \in DownloadNames :
        /\ Serve("download", <<filename>>)
        /\ response' = download_pdf(files, filename)
        /\ UNCHANGED <<conversation_history, loaded_documents, current_analysis, files,
                       gateway_calls, gateway_failures, task_invocations, chats_ok, chats_failed>>

Clear ==
    LET out == clear_conversation(conversation_history, current_analysis, loaded_documents)
    IN  /\ Serve("clear", <<>>)
        /\ response' = out.resp
        /\ conversation_history' = out.history
        /\ current_analysis' = out.analysis
        /\ loaded_documents' = out.docs
        /\ chats_ok' = 0
        /\ chats_failed' = 0
        /\ UNCHANGED <<files, gateway_calls, gateway_failures, task_invocations>>

Next ==
    \/ Upload
    \/ ListDocuments
    \/ Analyze
    \/ Concerns
    \/ Compare
    \/ Chat
    \/ SavePdf
    \/ Download
    \/ Clear

Spec == Init /\ [][Next]_vars

\* ------------------------------------------- the concerns interpreter alone
\* texts of JSON arrays the model may answer with: a string of an array may
\* hold any characters, a run of three backquotes among them
ArrayTexts ==
    { <<"JSON:entries">>,
      <<"JSON:empty-array">>,
      <<"JSON:entry-without-severity">>,
      <<"JSON:array-of-strings">>,
      StringArrayText(<<"see", "clause", "4">>),
      StringArrayText(<<"<fence>">>),
      StringArrayText(<<"<fence>", "JSON:number", "<fence>">>),
      StringArrayText(<<"<fence>", "json", "JSON:number", "<fence>">>) }

\* what the model writes before the block, between the fences and the array,
\* and after the block
Leads == {<<>>, <<"Here", "are", "the", "concerns:", "\n">>}
Pads == {<<>>, <<"\n">>}
Trails == {<<>>, <<"\n", "Let", "me", "know">>}

\* the model output that is the array, bare or in a fenced block
ModelOutput(kind, array_text, lead, pad, trail) ==
    CASE kind = "bare"      -> array_text
      [] kind = "labeled"   -> lead \o JsonFence \o pad \o array_text \o pad \o Fence \o trail
      [] kind = "unlabeled" -> lead \o Fence \o pad \o array_text \o pad \o Fence \o trail

OutputOf(kind) ==
    ModelOutput(kind, interp.array_text, interp.lead, interp.pad, interp.trail)

InterpInit ==
    /\ Constructed
    /\ threads = NoThreads
    /\ \E array_text \in ArrayTexts, lead \in Leads, pad \in Pads, trail \in Trails :
           interp = [NoInterp EXCEPT !.pc = "ready", !.array_text = array_text,
                                     !.lead = lead, !.pad = pad, !.trail = trail]

\* legal_simplifier.py:125-136 on the three outputs
Interpret ==
    /\ interp.pc = "ready"
    /\ interp' =
           [interp EXCEPT
               !.pc = "done",
               !.bare = highlight_concerning_clauses(<<>>, "ok", OutputOf("bare")),
               !.labeled = highlight_concerning_clauses(<<>>, "ok", OutputOf("labeled")),
               !.unlabeled = highlight_concerning_clauses(<<>>, "ok", OutputOf("unlabeled"))]
    /\ UNCHANGED <<conversation_history, loaded_documents, current_analysis, files,
                   clock, request, response, gateway_calls, gateway_failures,
                   task_invocations, chats_ok, chats_failed, threads>>

InterpNext == Interpret

SpecInterp == InterpInit /\ [][InterpNext]_vars

\* ------------------------------------------ requests served concurrently
\* The development server serves each request in a thread of its own, and
\* all threads use the one simplifier.  A chat is three steps on the shared
\* transcript: the append of the user turn, the building of the gateway
\* request from the transcript, and the append of the reply.  A list append,
\* a list copy and the assignment of clear are each atomic in the
\* interpreter, and every step reads self.conversation_history anew.
Threads == {"t1", "t2"}

\* a thread outside chat
Idle == [pc |-> "idle", sent |-> <<>>, raced |-> FALSE]

ConcInit ==
    /\ Constructed
    /\ interp = NoInterp
    /\ threads = [t \in Threads |-> Idle]

\* every thread inside chat, other than t, has been interleaved with a write
\* to the transcript
Interleave(t, pcs) ==
    [u \in Threads |->
        IF u # t /\ threads[u].pc # "idle" /\ pcs[u].pc # "idle"
        THEN [pcs[u] EXCEPT !.raced = TRUE] ELSE pcs[u]]

\* api.py:158-169 and legal_simplifier.py:280-285: the request arrives and
\* its user turn is appended
ChatEnter(t) ==
    \E message \in ChatMessages :
        /\ threads[t].pc = "idle"
        /\ clock < MaxClock
        /\ clock' = clock + 1
        /\ request' = [route |-> "chat", names |-> <<<<>>>>]
        /\ conversation_history' = ChatAppendUser(conversation_history, message, None)
        /\ task_invocations' = task_invocations + 1
        /\ threads' = Interleave(t, [threads EXCEPT ![t].pc = "appended"])
        /\ UNCHANGED <<loaded_documents, current_analysis, files, response,
                       gateway_calls, gateway_failures, chats_ok, chats_failed, interp>>

\* legal_simplifier.py:288-298: the gateway request is built from the
\* transcript and sent
ChatSend(t) ==
    /\ threads[t].pc = "appended"
    /\ threads' = [threads EXCEPT ![t].pc = "sent", ![t].sent = conversation_history]
    /\ gateway_calls' = gateway_calls + 1
    /\ UNCHANGED <<conversation_history, loaded_documents, current_analysis, files,
                   clock, request, response, gateway_failures, task_invocations,
                   chats_ok, chats_failed, interp>>

\* legal_simplifier.py:300-306 and api.py:171-174: the gateway answers or
\* raises, the reply is appended and the response is returned
ChatReturn(t) ==
    \E outcome \in GatewayOutcomes :
        LET assistant_message == ChatReply(threads[t].sent)
            done == [threads EXCEPT ![t].pc = "idle", ![t].sent = <<>>]
        IN  /\ threads[t].pc = "sent"
            /\ IF outcome = "fail"
               THEN /\ response' = Success([response |-> <<"Error:">> \o UpstreamMessage])
                    /\ threads' = done
                    /\ UNCHANGED conversation_history
               ELSE /\ response' = Success([response |-> assistant_message])
                    /\ threads' = Interleave(t, done)
                    /\ conversation_history' =
                           ChatAppendAssistant(conversation_history, assistant_message)
            /\ gateway_failures' = gateway_failures + Failed(1, outcome)
            /\ chats_ok' = IF outcome = "fail" THEN chats_ok ELSE chats_ok + 1
            /\ chats_failed' = IF outcome = "fail" THEN chats_failed + 1 ELSE chats_failed
            /\ UNCHANGED <<loaded_documents, current_analysis, files, clock, request,
                           gateway_calls, task_invocations, interp>>

\* POST /api/clear served while chats may be running
ConcurrentClear ==
    LET out == clear_conversation(conversation_history, current_analysis, loaded_documents)
    IN  /\ clock < MaxClock
        /\ clock' = clock + 1
        /\ request' = [route |-> "clear", names |-> <<>>]
        /\ response' = out.resp
        /\ conversation_history' = out.history
        /\ current_analysis' = out.analysis
        /\ loaded_documents' = out.docs
        /\ chats_ok' = 0
        /\ chats_failed' = 0
        /\ threads' = Interleave("none", threads)
        /\ UNCHANGED <<files, gateway_calls, gateway_failures, task_invocations, interp>>

ConcNext ==
    \/ \E t \in Threads : ChatEnter(t)
    \/ \E t \in Threads : ChatSend(t)
    \/ \E t \in Threads : ChatReturn(t)
    \/ ConcurrentClear

SpecConc == ConcInit /\ [][ConcNext]_vars

\* ------------------------------------------------------------------ claims
Tasks == {"analyze", "concerns", "compare", "chat"}

\* the step serves a request (it is not a stuttering step)
Served == clock' # clock

\* a name the served request carries is no key of the document map
UnknownName ==
    \E i \in DOMAIN request'.names :
        request'.names[i] # <<>> /\ request'.names[i] \notin DOMAIN loaded_documents

\* the served request leaves no required name out
NamesGiven ==
    request'.route = "chat" \/ \A i \in DOMAIN request'.names : request'.names[i] # <<>>

\* C1: a task that references a document name that is no key of the loaded
\* documents fails with NotFound: no success response, no gateway request,
\* the current analysis and the transcript unchanged.
C1_UnknownNameFailsNotFound ==
    [][(Served /\ request'.route \in Tasks /\ NamesGiven /\ UnknownName)
         => /\ ~response'.success
            /\ response'.status = 404
            /\ gateway_calls' = gateway_calls
            /\ current_analysis' = current_analysis
            /\ conversation_history' = conversation_history]_vars

\* the text a reader returns when extraction raised
IsExtractionError(text) == StartsWith(text, <<"Error", "reading">>)

NoEntryHoldsAnError ==
    \A n \in DOMAIN loaded_documents : ~IsExtractionError(loaded_documents[n].text)

\* C2: an upload whose text extraction fails answers with an error and leaves
\* the document map as it was, and no entry of the map ever holds an
\* extraction error message as its text.
C2_FailedExtractionStoresNothing ==
    [][Served =>
         /\ (request'.route = "upload" /\ ~response'.success
                 /\ IsExtractionError(response'.body.error))
              => loaded_documents' = loaded_documents
         /\ NoEntryHoldsAnError']_vars

\* the result a successful task response carries, as the slot would hold it
ResultOf(route, body) ==
    CASE route = "analyze"  -> Str(body.analysis)
      [] route = "concerns" -> Str(ConcernsText(body.concerns))
      [] route = "compare"  -> Str(body.comparison)
      [] route = "chat"     -> Str(body.response)

\* C3 as stated: after every completed analyze, concerns, compare or chat the
\* current-analysis slot holds the result of that invocation.
C3_EveryTaskOverwritesSlot ==
    [][(Served /\ request'.route \in Tasks /\ response'.success)
         => current_analysis' = ResultOf(request'.route, response'.body)]_vars

\* C3 amended: an analyze, concerns or compare invocation answered with
\* success leaves its result in the current-analysis slot, whatever the slot
\* held; every other request, chat included, leaves the slot unchanged.
C3_AnalysisTasksOverwriteSlot ==
    [][Served =>
         IF request'.route \in {"analyze", "concerns", "compare"} /\ response'.success
         THEN current_analysis' = ResultOf(request'.route, response'.body)
         ELSE current_analysis' = current_analysis]_vars

\* an analyze has replaced what an earlier task left in the slot
C3_Witness ==
    /\ request.route = "analyze"
    /\ response.success
    /\ task_invocations >= 2
    /\ gateway_calls >= 2
    /\ current_analysis = Str(response.body.analysis)

\* the transcript alternates user, assistant and each assistant turn is the
\* reply to the user turn before it
Alternates(history) ==
    /\ Len(history) % 2 = 0
    /\ \A i \in 1..(Len(history) \div 2) :
          /\ history[2 * i - 1].role = "user"
          /\ history[2 * i].role = "assistant"
          /\ history[2 * i].content = Completion(history[2 * i - 1].content)

IsPrefix(a, b) == Len(a) <= Len(b) /\ SubSeq(b, 1, Len(a)) = a

\* C4: while no chat has failed since the transcript was last empty, n chats
\* leave a transcript of length 2n that alternates user, assistant, each chat
\* appending its pair after the earlier ones; clear empties the transcript.
C4_ChatContinuity ==
    [][Served =>
         /\ chats_failed' = 0
              => Len(conversation_history') = 2 * chats_ok'
                 /\ Alternates(conversation_history')
         /\ (request'.route = "chat" /\ chats_ok' = chats_ok + 1)
              => /\ IsPrefix(conversation_history, conversation_history')
                 /\ Len(conversation_history') = Len(conversation_history) + 2
                 /\ conversation_history'[Len(conversation_history')].content
                        = response'.body.response
         /\ request'.route = "clear" => conversation_history' = <<>>]_vars

\* two chats in a row, with different questions, both answered
C4_Witness ==
    /\ chats_ok = 2
    /\ chats_failed = 0
    /\ Len(conversation_history) = 4
    /\ conversation_history[1].content # conversation_history[3].content
    /\ request.route = "chat"

NoAnalysis == Failure(400, <<"No", "analysis", "to", "save">>)

\* C6: an export requested while the current-analysis slot is empty answers
\* NoAnalysis and leaves the files as they were, whether or not rendering
\* would succeed; and only analyze, concerns and compare ever fill the slot.
C6_EmptySlotExportFails ==
    [][Served =>
         /\ (request'.route = "save-pdf" /\ ~Truthy(current_analysis))
              => response' = NoAnalysis /\ files' = files
         /\ current_analysis' # current_analysis
              => request'.route \in {"analyze", "concerns", "compare"}]_vars

\* an export is refused after uploads and chats
C6_Witness ==
    /\ request.route = "save-pdf"
    /\ response = NoAnalysis
    /\ DOMAIN loaded_documents # {}
    /\ conversation_history # <<>>

\* C7: clear empties the transcript and leaves the documents and the current
\* analysis as they were, so every export answers after it as it would have
\* answered before it.
C7_ClearFrame ==
    [][(Served /\ request'.route = "clear")
         => /\ conversation_history' = <<>>
            /\ loaded_documents' = loaded_documents
            /\ current_analysis' = current_analysis
            /\ \A requested \in ExportNames, renders \in BOOLEAN :
                   save_pdf(files', current_analysis', requested, clock', renders)
                     = save_pdf(files, current_analysis, requested, clock', renders)]_vars

\* a clear with a document loaded and an analysis to export
C7_Witness ==
    /\ request.route = "clear"
    /\ DOMAIN loaded_documents # {}
    /\ Truthy(current_analysis)
    /\ conversation_history = <<>>

\* C8: a download that succeeds serves a rendered artifact that lies in the
\* output directory.
C8_DownloadOnlyFromOutputs ==
    (request.route = "download" /\ response.success)
      => /\ StartsWith(response.body.served, OUTPUT_FOLDER \o <<"/">>)
         /\ response.body.file.kind = "artifact"

\* the text a task response carries
ResponseText(route, resp) ==
    IF ~resp.success THEN resp.body.error
    ELSE CASE route = "analyze"  -> resp.body.analysis
           [] route = "concerns" -> <<>>
           [] route = "compare"  -> resp.body.comparison
           [] route = "chat"     -> resp.body.response

\* C9: a task invocation whose gateway request fails answers with a
\* descriptive error message, one that carries the upstream message.
C9_GatewayFailureIsReported ==
    [][(Served /\ gateway_failures' > gateway_failures /\ NoEntryHoldsAnError)
         => /\ request'.route \in Tasks
            /\ IndexOf(ResponseText(request'.route, response'), UpstreamMessage) # 0]_vars

\* C10: a task invocation sends at most one gateway request, every other
\* request sends none, and the gateway requests never outnumber the task
\* invocations.
C10_AtMostOneGatewayCallPerTask ==
    [][Served =>
         /\ gateway_calls' - gateway_calls \in {0, 1}
         /\ request'.route \notin Tasks
              => gateway_calls' = gateway_calls /\ task_invocations' = task_invocations
         /\ request'.route \in Tasks => task_invocations' = task_invocations + 1
         /\ gateway_calls' <= task_invocations']_vars

\* a failed gateway request was not sent again, and a task sent none
C10_Witness ==
    /\ gateway_failures >= 1
    /\ gateway_calls >= 2
    /\ task_invocations > gateway_calls

\* C11: the interpreter yields the same list for an array in a fenced block
\* labeled json, in an unlabeled fenced block and bare, and the empty list
\* for every output that does not parse after the fence extraction
Unparsable(kind) == ~json_loads(ExtractJson(OutputOf(kind))).ok

C11_InterpretationAgrees ==
    interp.pc = "done" =>
        /\ interp.labeled = interp.bare
        /\ interp.unlabeled = interp.bare
        /\ Unparsable("bare") => interp.bare = JsonArray(<<>>)
        /\ Unparsable("labeled") => interp.labeled = JsonArray(<<>>)
        /\ Unparsable("unlabeled") => interp.unlabeled = JsonArray(<<>>)

\* C13: a chat whose gateway call fails leaves the transcript as it was, so
\* after every request the transcript has even length and no two adjacent
\* turns of it have the same role
NoAdjacentSameRole(history) ==
    \A i \in 1..(Len(history) - 1) : history[i].role # history[i + 1].role

C13_FailedChatLeavesTranscript ==
    [][Served =>
         /\ (request'.route = "chat" /\ gateway_failures' > gateway_failures)
              => conversation_history' = conversation_history
         /\ Len(conversation_history') % 2 = 0
         /\ NoAdjacentSameRole(conversation_history')]_vars

\* C14: an upload answered with success and a doc_name has stored, under
\* that name, the text extracted from the uploaded file, and reports the
\* length of that text
C14_UploadSuccessStoresDocument ==
    [][(Served /\ request'.route = "upload" /\ response'.success) =>
         LET name == response'.body.doc_name
         IN  /\ name \in DOMAIN loaded_documents'
             /\ loaded_documents'[name].text =
                    files'[NormPath(loaded_documents'[name].path)].data.text
             /\ response'.body.length = Len(loaded_documents'[name].text)]_vars

\* C12: nothing protects the transcript from requests that run
\* concurrently.  While no gateway call has failed, a transcript that is not
\* an alternation of user turns and their replies, in call order, comes only
\* from an interleaving: from a chat or a reset that writes to the transcript
\* while another chat is between its two appends.  Such interleavings are
\* reachable: two chats leave user, user, assistant, assistant, and a reset
\* between the appends of a chat leaves a transcript that starts with an
\* assistant turn.
Raced == \E t \in Threads : threads[t].raced

InChat == {t \in Threads : threads[t].pc # "idle"}

Roles(history) == [i \in 1..Len(history) |-> history[i].role]

C12_OnlyInterleavingBreaksAlternation ==
    (~Raced /\ gateway_failures = 0) =>
        IF InChat = {}
        THEN Alternates(conversation_history)
        ELSE /\ Cardinality(InChat) = 1
             /\ conversation_history # <<>>
             /\ conversation_history[Len(conversation_history)].role = "user"
             /\ Alternates(SubSeq(conversation_history, 1, Len(conversation_history) - 1))

C12_Witness ==
    /\ gateway_failures = 0
    /\ Raced
    /\ Roles(conversation_history) = <<"user", "user", "assistant", "assistant">>

C12_ResetBetweenAppends ==
    /\ gateway_failures = 0
    /\ Raced
    /\ conversation_history # <<>>
    /\ conversation_history[1].role = "assistant"

====
